---- MODULE Spec2Model ----
(***************************************************************************)
(* The semantic checker of the BX compiler front end                       *)
(* (bxc/bxlib/bxtychecker.py over the syntax tree of bxc/bxlib/bxast.py):  *)
(* PreTyper.pretype collects the global scope and the procedure            *)
(* signatures, TypeChecker walks every declaration, annotates expression   *)
(* nodes and reports diagnostics, check() returns whether none was         *)
(* reported.                                                               *)
(*                                                                         *)
(* The recursive descent over statements is a machine with an explicit     *)
(* continuation stack: one task per pending for_statement call and one per *)
(* pending exit of a `with` block (the finally clauses of in_loop,         *)
(* in_proc and Scope.in_subscope).  Expressions are checked in one step by *)
(* the recursive operator for_expression.  A Python exception is the flag  *)
(* `raised`: pending statements are dropped, pending exits still run.      *)
(*                                                                         *)
(* Syntax tree nodes are records of one shape per category, so that any    *)
(* two nodes can be compared.  A node's source position is its path in the *)
(* tree.  Integer literals are drawn inside the signed 64-bit range, so    *)
(* check_integer_constant_range never reports; declarations are procedures *)
(* and global variables only, as pretype asserts.                          *)
(***************************************************************************)
EXTENDS Naturals, Sequences, FiniteSets, TLC

VARIABLES
    prgm,      \* the Program handed to check(): a sequence of TopDecl
    pc,        \* "pretype" | "check" | "done" | "raised"
    idx,       \* the loop index of pretype's / for_program's `for`
    scope,     \* Scope: the stack of frames, global frame first
    procs,     \* ProcSigMap: procedure name -> signature
    loops,     \* TypeChecker.loops
    proc,      \* TypeChecker.proc: index of the active ProcDecl, 0 for None
    stack,     \* pending for_statement calls and `with` exits, innermost first
    raised,    \* an exception is propagating
    diags,     \* the reporter's diagnostics, in order
    typed,     \* the type slots written so far: {[pos, expr]}, expr annotated
    result,    \* what check() returned: "none" until it returns
    last,      \* the last handler that ran, with the state it started from
    run,       \* 1 for the first check of a program, 2 for the re-check
    first      \* the outcome of the first check, "none" during it

vars == <<prgm, pc, idx, scope, procs, loops, proc, stack, raised, diags,
          typed, result, last, run, first>>

----------------------------------------------------------------------------
(* bxast.py: types                                                          *)

None == "None"

VOID == "void"
BOOL == "bool"
INT == "int"
POINTER_INT == "pointer_int"
POINTER_BOOL == "pointer_bool"

Names == {"x", "y"}

ProcNames == {"main", "f", "g"}

----------------------------------------------------------------------------
(* bxast.py: expressions.  One record shape: kind, name (variable,          *)
(* operator or procedure name, allocated type), value (literals; booleans   *)
(* as 0 and 1), arguments (sub-expressions in order), type_ (the slot).     *)

Expression(kind, name, value, arguments) ==
    [kind |-> kind, name |-> name, value |-> value, arguments |-> arguments,
     type_ |-> None]

NoExpr == Expression("None", "", 0, <<>>)

VarExpression(name) == Expression("var", name, 0, <<>>)

BoolExpression(value) == Expression("bool", "", IF value THEN 1 ELSE 0, <<>>)

IntExpression(value) == Expression("int", "", value, <<>>)

OpAppExpression(operator, arguments) == Expression("opapp", operator, 0, arguments)

CallExpression(name, arguments) == Expression("call", name, 0, arguments)

PrintExpression(argument) == Expression("print", "", 0, <<argument>>)

AllocExpression(alloctype, size) == Expression("alloc", alloctype, 0, <<size>>)

DereferenceExpression(pointer_expr) == Expression("deref", "", 0, <<pointer_expr>>)

IndexExpression(array_expr, index_expr) ==
    Expression("index", "", 0, <<array_expr, index_expr>>)

----------------------------------------------------------------------------
(* bxast.py: statements.  One record shape: kind, name (declared or         *)
(* assigned variable), type_ (declared type), expr (the statement's         *)
(* expression, NoExpr when it has none), body (sub-statements: a block's    *)
(* statements, a while's body, an if's branches, the else branch absent     *)
(* when there is one only).                                                 *)

Statement(kind, name, type_, expr, body) ==
    [kind |-> kind, name |-> name, type_ |-> type_, expr |-> expr, body |-> body]

VarDeclStatement(name, init, type_) == Statement("vardecl", name, type_, init, <<>>)

AssignStatement(lhs, rhs) == Statement("assign", lhs, None, rhs, <<>>)

ExprStatement(expression) == Statement("expr", "", None, expression, <<>>)

PrintStatement(value) == Statement("print", "", None, value, <<>>)

BlockStatement(body) == Statement("block", "", None, NoExpr, body)

IfStatement(condition, then, else_) ==
    Statement("if", "", None, condition, IF else_ = <<>> THEN <<then>> ELSE <<then, else_[1]>>)

WhileStatement(condition, body) == Statement("while", "", None, condition, <<body>>)

BreakStatement == Statement("break", "", None, NoExpr, <<>>)

ContinueStatement == Statement("continue", "", None, NoExpr, <<>>)

ReturnStatement(expr) == Statement("return", "", None, expr, <<>>)

----------------------------------------------------------------------------
(* bxast.py: top-level declarations.  One record shape: kind, name,         *)
(* arguments (a procedure's parameters, [name, type]), type_ (a procedure's *)
(* rettype, None when it declares none; a global's declared type), init (a  *)
(* global's initializer), body (a procedure's body, one statement).         *)

ProcDecl(name, arguments, rettype, body) ==
    [kind |-> "proc", name |-> name, arguments |-> arguments, type_ |-> rettype,
     init |-> NoExpr, body |-> <<body>>]

GlobVarDecl(name, init, type_) ==
    [kind |-> "globvar", name |-> name, arguments |-> <<>>, type_ |-> type_,
     init |-> init, body |-> <<>>]

Param(name, type_) == [name |-> name, type |-> type_]

----------------------------------------------------------------------------
(* Positions: a node's path.  <<i>> is the body of declaration i, p \o <<k>> *)
(* the k-th sub-statement of the statement at p, p \o <<0>> its expression,  *)
(* and e \o <<j>> the j-th argument of the expression at e.                  *)

RECURSIVE StmtIn(_, _)
StmtIn(stmt, path) ==
    IF path = <<>> THEN stmt ELSE StmtIn(stmt.body[Head(path)], Tail(path))

StmtAt(path) == StmtIn(prgm[Head(path)].body[1], Tail(path))

----------------------------------------------------------------------------
(* The reporter (bxerrors.py, outside the sources given): report appends    *)
(* one diagnostic; a checkpoint is true when none was recorded inside it.   *)

Diag(msg, pos, name, expected, got) ==
    [msg |-> msg, pos |-> pos, name |-> name, expected |-> expected, got |-> got,
     types |-> <<>>]

Report(msg, pos, name) == Diag(msg, pos, name, 0, 0)

Checkpoint(ds) == Len(ds) = 0

----------------------------------------------------------------------------
(* The scope (bxscope.py, outside the sources given): a stack of frames,    *)
(* each a map from names to types (None: unbound in that frame).            *)

EmptyFrame == [n \in Names |-> None]

ScopeNew == <<EmptyFrame>>

ScopeOpen(sc) == Append(sc, EmptyFrame)

ScopeClose(sc) == SubSeq(sc, 1, Len(sc) - 1)

ScopePush(sc, name, type_) ==
    [sc EXCEPT ![Len(sc)] = [@ EXCEPT ![name] = type_]]

ScopeIsLocal(sc, name) == sc[Len(sc)][name] # None

ScopeContains(sc, name) == \E k \in 1..Len(sc) : sc[k][name] # None

ScopeLookup(sc, name) ==
    IF ScopeContains(sc, name)
    THEN LET k == CHOOSE j \in 1..Len(sc) :
                      /\ sc[j][name] # None
                      /\ \A m \in (j+1)..Len(sc) : sc[m][name] = None
         IN sc[k][name]
    ELSE None

----------------------------------------------------------------------------
(* TypeChecker.SIGS: operator name -> (parameter types, result type).      *)

IntUnary == {"opposite"}

BoolUnary == {"bitwise-negation", "boolean-not"}

IntBinary ==
    {"addition", "subtraction", "multiplication", "division", "modulus",
     "logical-right-shift", "logical-left-shift", "bitwise-and", "bitwise-or",
     "bitwise-xor"}

BoolBinary == {"boolean-and", "boolean-or"}

Comparison ==
    {"cmp-equal", "cmp-not-equal", "cmp-lower-than", "cmp-lower-or-equal-than",
     "cmp-greater-than", "cmp-greater-or-equal-than"}

Sig(atypes, retty) == [defined |-> TRUE, atypes |-> atypes, retty |-> retty]

NoSig == [defined |-> FALSE, atypes |-> <<>>, retty |-> None]

SIGS(opname) ==
    CASE opname \in IntUnary   -> Sig(<<INT>>, INT)
      [] opname \in BoolUnary  -> Sig(<<BOOL>>, BOOL)
      [] opname \in IntBinary  -> Sig(<<INT, INT>>, INT)
      [] opname \in BoolBinary -> Sig(<<BOOL, BOOL>>, BOOL)
      [] opname \in Comparison -> Sig(<<INT, INT>>, BOOL)

----------------------------------------------------------------------------
(* TypeChecker.for_expression.  The result is the expression with its type *)
(* slots written, the diagnostics reported in order, and whether an        *)
(* exception left the call (the slots written before it stay written).     *)

Min(a, b) == IF a < b THEN a ELSE b

TypeDiag(pos, got, expected) ==
    [msg |-> "invalid type", pos |-> pos, name |-> "", expected |-> 0, got |-> 0,
     types |-> <<got, expected>>]

\* check_local_bound: the bound type, None (and a diagnostic) when unbound
check_local_bound(sc, name, pos) ==
    IF ~ScopeContains(sc, name)
    THEN [type_ |-> None,
          diags |-> <<Report("missing variable declaration", pos, name)>>]
    ELSE [type_ |-> ScopeLookup(sc, name), diags |-> <<>>]

\* the zip of an operator's parameter types with its arguments
OpArgTypes(opsig, arguments) ==
    [k \in 1..Min(Len(opsig.atypes), Len(arguments)) |-> opsig.atypes[k]]

\* atypes[i] if i in range(len(atypes)) else None, for every argument
CallArgTypes(atypes, arguments) ==
    [k \in 1..Len(arguments) |-> IF k <= Len(atypes) THEN atypes[k] ELSE None]

\* the lookup of the called procedure and the comparison of the counts
CallSignature(pr, name, arguments, pos) ==
    IF ~pr[name].defined
    THEN [atypes |-> <<>>, retty |-> None,
          diags |-> <<Report("unknown procedure", pos, name)>>]
    ELSE [atypes |-> pr[name].atypes, retty |-> pr[name].retty,
          diags |-> IF Len(pr[name].atypes) # Len(arguments)
                    THEN <<Diag("invalid number of arguments", pos, "",
                                Len(pr[name].atypes), Len(arguments))>>
                    ELSE <<>>]

\* what the match statement of for_expression leaves: the inferred type, the
\* arguments with their slots written, the diagnostics, whether it raised
Inferred(type_, a) ==
    [type_ |-> type_, args |-> a.args, diags |-> a.diags, raised |-> a.raised]

Unchecked(arguments) == [args |-> arguments, diags |-> <<>>, raised |-> FALSE]

Reported(ds, a) == [args |-> a.args, diags |-> ds \o a.diags, raised |-> a.raised]

Raising(a) == [args |-> a.args, diags |-> a.diags, raised |-> TRUE]

\* case PrintExpression, after its argument was checked
print_argument(pos, a) ==
    [args |-> a.args,
     diags |-> a.diags \o
         (IF ~a.raised /\ a.args[1].type_ \notin {None, INT, BOOL}
          THEN <<Report("can only print integers and booleans", pos \o <<1>>,
                        a.args[1].type_)>>
          ELSE <<>>),
     raised |-> a.raised]

\* the end of for_expression: the comparison with etype, and the slot
expression_type(expr, etype, pos, r) ==
    IF r.raised
    THEN [expr |-> [expr EXCEPT !.arguments = r.args], diags |-> r.diags,
          raised |-> TRUE]
    ELSE [expr |-> [expr EXCEPT !.arguments = r.args, !.type_ = r.type_],
          diags |-> r.diags \o
              (IF r.type_ # None /\ etype # None /\ r.type_ # etype
               THEN <<TypeDiag(pos, r.type_, etype)>>
               ELSE <<>>),
          raised |-> FALSE]

ArgumentsJoin(r, rest) ==
    [args |-> rest.args, diags |-> r.diags \o rest.diags, raised |-> rest.raised]

RECURSIVE for_expression(_, _, _, _, _)
RECURSIVE for_arguments(_, _, _, _, _, _)
RECURSIVE ArgumentsFrom(_, _, _, _, _, _, _)

\* for_expression on arguments k, k+1, ... of the node at pos, argument j
\* against etypes[j], until one raises
for_arguments(arguments, etypes, pos, sc, pr, k) ==
    IF k > Len(etypes)
    THEN Unchecked(arguments)
    ELSE ArgumentsFrom(arguments, etypes, pos, sc, pr, k,
             for_expression(arguments[k], etypes[k], pos \o <<k>>, sc, pr))

\* argument k was checked, with result r
ArgumentsFrom(arguments, etypes, pos, sc, pr, k, r) ==
    IF r.raised
    THEN [args |-> [arguments EXCEPT ![k] = r.expr], diags |-> r.diags,
          raised |-> TRUE]
    ELSE ArgumentsJoin(r, for_arguments([arguments EXCEPT ![k] = r.expr], etypes,
                                        pos, sc, pr, k + 1))

\* the types its arguments are checked against, by the kind of the node; no
\* argument is checked before Type.INT raises in an AllocExpression, and the
\* first only before it raises in an IndexExpression
ArgumentTypes(expr, s) ==
    CASE expr.kind = "opapp" -> OpArgTypes(SIGS(expr.name), expr.arguments)
      [] expr.kind = "call" -> CallArgTypes(s.atypes, expr.arguments)
      [] expr.kind \in {"print", "deref", "index"} -> <<None>>
      [] OTHER -> <<>>

\* the match statement, the arguments checked (a) and the called procedure
\* looked up (s)
infer(expr, pos, sc, s, a) ==
    CASE expr.kind = "var" ->
            Inferred(check_local_bound(sc, expr.name, pos).type_,
                     Reported(check_local_bound(sc, expr.name, pos).diags, a))
      [] expr.kind = "bool" -> Inferred(BOOL, a)
      [] expr.kind = "int" -> Inferred(INT, a)
      [] expr.kind = "opapp" -> Inferred(SIGS(expr.name).retty, a)
      [] expr.kind = "call" -> Inferred(s.retty, Reported(s.diags, a))
      [] expr.kind = "print" -> Inferred(VOID, print_argument(pos, a))
      \* Type.INT, Type.POINTER_INT: the class Type has no such attribute
      [] expr.kind \in {"alloc", "deref", "index"} -> Inferred(None, Raising(a))

CalledSignature(expr, pos, pr) ==
    IF expr.kind = "call"
    THEN CallSignature(pr, expr.name, expr.arguments, pos)
    ELSE [atypes |-> <<>>, retty |-> None, diags |-> <<>>]

for_expression_with(expr, etype, pos, sc, s, a) ==
    expression_type(expr, etype, pos, infer(expr, pos, sc, s, a))

for_expression_in(expr, etype, pos, sc, pr, s) ==
    for_expression_with(expr, etype, pos, sc, s,
        for_arguments(expr.arguments, ArgumentTypes(expr, s), pos, sc, pr, 1))

for_expression(expr, etype, pos, sc, pr) ==
    for_expression_in(expr, etype, pos, sc, pr, CalledSignature(expr, pos, pr))

----------------------------------------------------------------------------
(* PreTyper.pretype: one iteration of its loop per declaration, then the   *)
(* test of main.                                                           *)

\* case ProcDecl without its `continue`: a duplicate is reported and replaces
\* the signature registered first
pretype_proc_overwrite(pr, decl, pos) ==
    [procs |-> [pr EXCEPT ![decl.name] =
                   Sig([k \in 1..Len(decl.arguments) |-> decl.arguments[k].type],
                       IF decl.type_ = None THEN VOID ELSE decl.type_)],
     diags |-> IF pr[decl.name].defined
               THEN <<Report("duplicated procedure name", pos, decl.name)>>
               ELSE <<>>]

\* case ProcDecl: a name already in procs is reported and skipped
pretype_proc(pr, decl, pos) ==
    IF pr[decl.name].defined
    THEN [procs |-> pr,
          diags |-> <<Report("duplicated procedure name", pos, decl.name)>>]
    ELSE [procs |-> [pr EXCEPT ![decl.name] =
                        Sig([k \in 1..Len(decl.arguments) |-> decl.arguments[k].type],
                            IF decl.type_ = None THEN VOID ELSE decl.type_)],
          diags |-> <<>>]

\* case GlobVarDecl: a name already in scope is reported and skipped
pretype_glob(sc, decl, pos) ==
    IF ScopeContains(sc, decl.name)
    THEN [scope |-> sc,
          diags |-> <<Report("duplicated global variable name", pos, decl.name)>>]
    ELSE [scope |-> ScopePush(sc, decl.name, decl.type_), diags |-> <<>>]

\* after the loop: main must exist, with no argument and no return value
pretype_main(pr) ==
    IF ~pr["main"].defined
    THEN <<Report("this program is missing a main subroutine", <<>>, "")>>
    ELSE IF pr["main"] # Sig(<<>>, VOID)
         THEN <<Report("main should not take any argument and should not return any value",
                       <<>>, "")>>
         ELSE <<>>

----------------------------------------------------------------------------
(* TypeChecker: the helpers of for_statement and for_topdecl.              *)

NoEntry == [scope |-> <<>>, loops |-> 0, proc |-> 0]

Entry == [scope |-> scope, loops |-> loops, proc |-> proc]

Task(op, path, entry) == [op |-> op, path |-> path, entry |-> entry]

\* what one for_statement case does: the scope and loop counter it leaves,
\* the diagnostics it reports, the type slots it writes, whether it raises,
\* and the calls and exits it leaves pending (tasks)
Effect(sc, lp, ds, ty, rs, tasks) ==
    [scope |-> sc, loops |-> lp, diags |-> ds, typed |-> ty, raised |-> rs,
     tasks |-> tasks]

Slot(pos, r) == {[pos |-> pos, expr |-> r.expr]}

\* the for_statement calls on the sub-statements of the statement at path
SubTasks(s, path) ==
    [k \in 1..Len(s.body) |-> Task("stmt", path \o <<k>>, NoEntry)]

\* check_local_free testing the whole scope chain (name in self.scope)
check_local_free_chain(sc, name) ==
    IF ScopeContains(sc, name)
    THEN <<Report("duplicated variable declaration", <<>>, name)>>
    ELSE <<>>

check_local_free(sc, name) ==
    IF ScopeIsLocal(sc, name)
    THEN <<Report("duplicated variable declaration", <<>>, name)>>
    ELSE <<>>

\* in_loop without its increment
in_loop_enter_skipped(lp) == lp

in_loop_enter(lp) == lp + 1

\* in_loop without its finally clause
in_loop_exit_skipped(lp) == lp

in_loop_exit(lp) == lp - 1

\* a statement that checks its expression (result r) after reporting ds
ExprEffect(sc, lp, ds, pos, r, tasks) ==
    Effect(sc, lp, ds \o r.diags, Slot(pos, r), r.raised,
           IF r.raised THEN <<>> ELSE tasks)

vardecl_scope(sc, s) ==
    IF check_local_free(sc, s.name) = <<>> THEN ScopePush(sc, s.name, s.type_) ELSE sc

for_vardecl_in(s, path, sc, sc1, lp, pr) ==
    ExprEffect(sc1, lp, check_local_free(sc, s.name), path \o <<0>>,
               for_expression(s.expr, s.type_, path \o <<0>>, sc1, pr), <<>>)

for_vardecl(s, path, sc, lp, pr) ==
    for_vardecl_in(s, path, sc, vardecl_scope(sc, s), lp, pr)

for_assign(s, path, sc, lp, pr) ==
    ExprEffect(sc, lp, check_local_bound(sc, s.name, path).diags, path \o <<0>>,
               for_expression(s.expr, check_local_bound(sc, s.name, path).type_,
                              path \o <<0>>, sc, pr), <<>>)

for_exprstmt(s, path, sc, lp, pr) ==
    ExprEffect(sc, lp, <<>>, path \o <<0>>,
               for_expression(s.expr, None, path \o <<0>>, sc, pr), <<>>)

for_printstmt(s, path, sc, lp, pr) ==
    ExprEffect(sc, lp, <<>>, path \o <<0>>,
               for_expression(s.expr, INT, path \o <<0>>, sc, pr), <<>>)

\* for_block under Scope.in_subscope
for_block(s, path, sc, lp, entry) ==
    Effect(ScopeOpen(sc), lp, <<>>, {}, FALSE,
           SubTasks(s, path) \o <<Task("close_scope", path, entry)>>)

for_if(s, path, sc, lp, pr) ==
    ExprEffect(sc, lp, <<>>, path \o <<0>>,
               for_expression(s.expr, BOOL, path \o <<0>>, sc, pr),
               SubTasks(s, path))

\* the body is checked inside in_loop, when the condition did not raise
while_body(e, s, path, entry) ==
    IF e.raised
    THEN e
    ELSE [e EXCEPT !.loops = in_loop_enter(@),
                   !.tasks = SubTasks(s, path) \o <<Task("exit_loop", path, entry)>>]

for_while(s, path, sc, lp, pr, entry) ==
    while_body(ExprEffect(sc, lp, <<>>, path \o <<0>>,
                          for_expression(s.expr, BOOL, path \o <<0>>, sc, pr), <<>>),
               s, path, entry)

for_break(s, path, sc, lp) ==
    Effect(sc, lp,
           IF lp = 0
           THEN <<Report("break/continue statement outside of a loop", path, "")>>
           ELSE <<>>,
           {}, FALSE, <<>>)

\* with no value: self.proc.retty raises, ProcDecl has no such attribute;
\* with a value: the value is never handed to for_expression
for_return(s, path, sc, lp, rettype) ==
    IF s.expr = NoExpr
    THEN Effect(sc, lp,
                IF rettype # None
                THEN <<Report("value-less return statement in a function", path, "")>>
                ELSE <<>>,
                {}, TRUE, <<>>)
    ELSE Effect(sc, lp,
                IF rettype = None
                THEN <<Report("return statement in a subroutine", path, "")>>
                ELSE <<>>,
                {}, FALSE, <<>>)

for_statement(s, path, sc, lp, pr, rettype, entry) ==
    CASE s.kind = "vardecl" -> for_vardecl(s, path, sc, lp, pr)
      [] s.kind = "assign" -> for_assign(s, path, sc, lp, pr)
      [] s.kind = "expr" -> for_exprstmt(s, path, sc, lp, pr)
      [] s.kind = "block" -> for_block(s, path, sc, lp, entry)
      [] s.kind = "if" -> for_if(s, path, sc, lp, pr)
      [] s.kind = "while" -> for_while(s, path, sc, lp, pr, entry)
      [] s.kind \in {"break", "continue"} -> for_break(s, path, sc, lp)
      [] s.kind = "print" -> for_printstmt(s, path, sc, lp, pr)
      [] s.kind = "return" -> for_return(s, path, sc, lp, rettype)

RECURSIVE has_return(_)
has_return(stmt) ==
    CASE stmt.kind = "return" -> TRUE
      [] stmt.kind = "if" ->
            /\ has_return(stmt.body[1])
            /\ Len(stmt.body) = 2 /\ has_return(stmt.body[2])
      [] stmt.kind = "block" -> \E k \in 1..Len(stmt.body) : has_return(stmt.body[k])
      [] OTHER -> FALSE

check_constant(expr) == expr.kind = "int"

\* for_topdecl, ProcDecl: the parameters, bound in the frame in_proc opened
BoundJoin(dup, rest) == [scope |-> rest.scope, diags |-> dup \o rest.diags]

RECURSIVE bind_arguments(_, _, _)
bind_arguments(sc, arguments, k) ==
    IF k > Len(arguments)
    THEN [scope |-> sc, diags |-> <<>>]
    ELSE BoundJoin(check_local_free(sc, arguments[k].name),
                   bind_arguments(vardecl_scope(sc, [name |-> arguments[k].name,
                                                     type_ |-> arguments[k].type]),
                                  arguments, k + 1))

\* for_topdecl, ProcDecl, after the body: the test of has_return
missing_return(decl, pos) ==
    IF decl.type_ # None /\ ~has_return(decl.body[1])
    THEN <<Report("this function is missing a return statement", pos, "")>>
    ELSE <<>>

\* for_topdecl, GlobVarDecl
globvar_effect(decl, pos, r) ==
    [diags |-> r.diags \o
               (IF ~r.raised /\ ~check_constant(decl.init)
                THEN <<Report("this expression is not a literal", pos \o <<0>>, "")>>
                ELSE <<>>),
     typed |-> Slot(pos \o <<0>>, r), raised |-> r.raised]

for_globvar(decl, pos, sc, pr) ==
    globvar_effect(decl, pos,
                   for_expression(decl.init, decl.type_, pos \o <<0>>, sc, pr))

----------------------------------------------------------------------------
(* The state after construction, for a program p.                          *)

NoProcs == [n \in ProcNames |-> NoSig]

Snapshot ==
    [scope |-> scope, loops |-> loops, proc |-> proc, diags |-> diags,
     stack |-> stack]

Event(ev, path, entry) == [ev |-> ev, path |-> path, pre |-> Snapshot, entry |-> entry]

NoEvent ==
    [ev |-> "none", path |-> <<>>,
     pre |-> [scope |-> <<>>, loops |-> 0, proc |-> 0, diags |-> <<>>, stack |-> <<>>],
     entry |-> NoEntry]

Fresh ==
    /\ pc = "pretype"
    /\ idx = 1
    /\ scope = ScopeNew
    /\ procs = NoProcs
    /\ loops = 0
    /\ proc = 0
    /\ stack = <<>>
    /\ raised = FALSE
    /\ diags = <<>>
    /\ typed = {}
    /\ result = "none"
    /\ last = NoEvent

----------------------------------------------------------------------------
(* The actions.                                                            *)

\* pretype with `break` for `continue`: the loop ends at the first duplicate
PretypeDeclBreak ==
    /\ pc = "pretype"
    /\ idx <= Len(prgm)
    /\ LET decl == prgm[idx]
       IN  IF decl.kind = "proc"
           THEN /\ procs' = pretype_proc(procs, decl, <<idx>>).procs
                /\ diags' = diags \o pretype_proc(procs, decl, <<idx>>).diags
                /\ scope' = scope
                /\ idx' = IF procs[decl.name].defined THEN Len(prgm) + 1 ELSE idx + 1
           ELSE /\ scope' = pretype_glob(scope, decl, <<idx>>).scope
                /\ diags' = diags \o pretype_glob(scope, decl, <<idx>>).diags
                /\ procs' = procs
                /\ idx' = IF ScopeContains(scope, decl.name) THEN Len(prgm) + 1 ELSE idx + 1
    /\ last' = Event("pretype", <<idx>>, NoEntry)
    /\ UNCHANGED <<prgm, pc, loops, proc, stack, raised, typed, result, run, first>>

\* pretype: one declaration
PretypeDecl ==
    /\ pc = "pretype"
    /\ idx <= Len(prgm)
    /\ LET decl == prgm[idx]
       IN  IF decl.kind = "proc"
           THEN LET r == pretype_proc(procs, decl, <<idx>>)
                IN  /\ procs' = r.procs
                    /\ diags' = diags \o r.diags
                    /\ scope' = scope
           ELSE LET r == pretype_glob(scope, decl, <<idx>>)
                IN  /\ scope' = r.scope
                    /\ diags' = diags \o r.diags
                    /\ procs' = procs
    /\ idx' = idx + 1
    /\ last' = Event("pretype", <<idx>>, NoEntry)
    /\ UNCHANGED <<prgm, pc, loops, proc, stack, raised, typed, result, run, first>>

\* pretype returns; TypeChecker is constructed and for_program starts
PretypeFinish ==
    /\ pc = "pretype"
    /\ idx > Len(prgm)
    /\ diags' = diags \o pretype_main(procs)
    /\ pc' = "check"
    /\ idx' = 1
    /\ loops' = 0
    /\ proc' = 0
    /\ last' = Event("pretyped", <<>>, NoEntry)
    /\ UNCHANGED <<prgm, scope, procs, stack, raised, typed, result, run, first>>

ArgumentsBound(b) ==
    /\ scope' = b.scope
    /\ diags' = diags \o b.diags

\* for_topdecl on a ProcDecl: in_proc is entered, the parameters are bound,
\* the body and the exit of in_proc are pending
ForTopdeclProc ==
    /\ pc = "check"
    /\ stack = <<>>
    /\ idx <= Len(prgm)
    /\ prgm[idx].kind = "proc"
    /\ proc = 0
    /\ ArgumentsBound(bind_arguments(ScopeOpen(scope), prgm[idx].arguments, 1))
    /\ proc' = idx
    /\ stack' = <<Task("stmt", <<idx>>, NoEntry), Task("exit_proc", <<idx>>, Entry)>>
    /\ last' = Event("enter_proc", <<idx>>, NoEntry)
    /\ UNCHANGED <<prgm, pc, idx, procs, loops, raised, typed, result, run, first>>

\* the end of for_topdecl on a ProcDecl: the test of has_return when the
\* body returned, and in any case the finally clause of in_proc
ForTopdeclProcExit ==
    /\ stack # <<>>
    /\ Head(stack).op = "exit_proc"
    /\ diags' = diags \o (IF raised THEN <<>> ELSE missing_return(prgm[idx], <<idx>>))
    /\ proc' = 0
    /\ scope' = ScopeClose(scope)
    /\ stack' = Tail(stack)
    /\ IF raised
       THEN pc' = "raised" /\ idx' = idx
       ELSE pc' = pc /\ idx' = idx + 1
    /\ last' = Event("exit_proc", <<idx>>, Head(stack).entry)
    /\ UNCHANGED <<prgm, procs, loops, raised, typed, result, run, first>>

\* for_topdecl on a GlobVarDecl left r; an exception leaves check
GlobVarChecked(r) ==
    /\ diags' = diags \o r.diags
    /\ typed' = typed \cup r.typed
    /\ raised' = r.raised
    /\ IF r.raised
       THEN pc' = "raised" /\ idx' = idx
       ELSE pc' = pc /\ idx' = idx + 1

\* for_topdecl on a GlobVarDecl
ForTopdeclGlob ==
    /\ pc = "check"
    /\ stack = <<>>
    /\ idx <= Len(prgm)
    /\ prgm[idx].kind = "globvar"
    /\ GlobVarChecked(for_globvar(prgm[idx], <<idx>>, scope, procs))
    /\ last' = Event("globvar", <<idx>>, NoEntry)
    /\ UNCHANGED <<prgm, scope, procs, loops, proc, stack, result, run, first>>

\* a for_statement case left e
StatementChecked(e) ==
    /\ scope' = e.scope
    /\ loops' = e.loops
    /\ diags' = diags \o e.diags
    /\ typed' = typed \cup e.typed
    /\ raised' = e.raised
    /\ stack' = e.tasks \o Tail(stack)

\* one call of for_statement
ForStatement ==
    /\ stack # <<>>
    /\ Head(stack).op = "stmt"
    /\ ~raised
    /\ StatementChecked(for_statement(StmtAt(Head(stack).path), Head(stack).path,
                                      scope, loops, procs, prgm[proc].type_, Entry))
    /\ last' = Event(StmtAt(Head(stack).path).kind, Head(stack).path, NoEntry)
    /\ UNCHANGED <<prgm, pc, idx, procs, proc, result, run, first>>

\* an exception leaves the enclosing for_statement calls
Propagate ==
    /\ stack # <<>>
    /\ Head(stack).op = "stmt"
    /\ raised
    /\ stack' = Tail(stack)
    /\ last' = Event("skipped", Head(stack).path, NoEntry)
    /\ UNCHANGED <<prgm, pc, idx, scope, procs, loops, proc, raised, diags, typed,
                   result, run, first>>

\* the finally clause of in_loop
ExitLoop ==
    /\ stack # <<>>
    /\ Head(stack).op = "exit_loop"
    /\ loops' = in_loop_exit(loops)
    /\ stack' = Tail(stack)
    /\ last' = Event("exit_loop", Head(stack).path, Head(stack).entry)
    /\ UNCHANGED <<prgm, pc, idx, scope, procs, proc, raised, diags, typed,
                   result, run, first>>

\* the exit of Scope.in_subscope
CloseScope ==
    /\ stack # <<>>
    /\ Head(stack).op = "close_scope"
    /\ scope' = ScopeClose(scope)
    /\ stack' = Tail(stack)
    /\ last' = Event("exit_block", Head(stack).path, Head(stack).entry)
    /\ UNCHANGED <<prgm, pc, idx, procs, loops, proc, raised, diags, typed,
                   result, run, first>>

\* for_program is over: check returns bool(checkpoint)
CheckReturn ==
    /\ pc = "check"
    /\ stack = <<>>
    /\ idx > Len(prgm)
    /\ result' = IF Checkpoint(diags) THEN "true" ELSE "false"
    /\ pc' = "done"
    /\ last' = Event("return_check", <<>>, NoEntry)
    /\ UNCHANGED <<prgm, idx, scope, procs, loops, proc, stack, raised, diags,
                   typed, run, first>>

Next ==
    \/ PretypeDecl
    \/ PretypeFinish
    \/ ForTopdeclProc
    \/ ForTopdeclProcExit
    \/ ForTopdeclGlob
    \/ ForStatement
    \/ Propagate
    \/ ExitLoop
    \/ CloseScope
    \/ CheckReturn

----------------------------------------------------------------------------
(* The programs checked.                                                   *)

MaxBlock == 2

MaxArgs == 3

MaxDecls == 3

SeqsUpTo(S, n) == UNION {[1..k -> S] : k \in 0..n}

One == IntExpression(1)

True == BoolExpression(TRUE)

Block1(s) == BlockStatement(<<s>>)

\* a statement alone, or alone in a block, a loop body or the branches of an if
Nested(A) ==
    {Block1(a) : a \in A} \cup {WhileStatement(True, Block1(a)) : a \in A}

Branching(A) ==
    {IfStatement(True, Block1(a), <<>>) : a \in A}
    \cup {IfStatement(True, Block1(a), <<Block1(b)>>) : a \in A, b \in A}

Bodies(S) == {BlockStatement(ss) : ss \in SeqsUpTo(S, MaxBlock)}

Main0 == ProcDecl("main", <<>>, None, BlockStatement(<<>>))

\* returns, with and without a value, under if, while and blocks
ReturnAtoms == {ReturnStatement(NoExpr), ReturnStatement(One), PrintStatement(One)}

ReturnStmts == ReturnAtoms \cup Nested(ReturnAtoms) \cup Branching(ReturnAtoms)

ReturnPrograms ==
    {<<ProcDecl("main", <<>>, None, b)>> : b \in Bodies(ReturnStmts)}
    \cup {<<Main0, ProcDecl("f", <<>>, t, b)>> : t \in {INT, BOOL}, b \in Bodies(ReturnStmts)}

\* local declarations and break/continue under nested blocks and loops,
\* below a global x and, in f, a parameter x
ScopeAtoms ==
    {VarDeclStatement("x", One, INT), VarDeclStatement("x", True, BOOL),
     BreakStatement, ReturnStatement(NoExpr)}

ScopeStmts ==
    ScopeAtoms \cup {ContinueStatement} \cup Nested(ScopeAtoms)
    \cup Nested(Nested(ScopeAtoms))

ScopePrograms ==
    {<<GlobVarDecl("x", One, INT), ProcDecl("main", <<>>, None, b)>> :
        b \in Bodies(ScopeStmts)}
    \cup {<<Main0, ProcDecl("f", <<Param("x", BOOL)>>, None, b)>> :
        b \in Bodies(ScopeStmts)}

\* calls of f with every number of arguments up to MaxArgs
ArgExprs == {One, True, VarExpression("y"), DereferenceExpression(One)}

CallPrograms ==
    {<<ProcDecl("f", ps, t, BlockStatement(<<>>)),
       ProcDecl("main", <<>>, None,
                BlockStatement(<<ExprStatement(CallExpression("f", as))>> \o rest))>> :
        ps \in {<<>>, <<Param("x", INT)>>, <<Param("x", INT), Param("y", BOOL)>>},
        t \in {None, INT},
        as \in SeqsUpTo(ArgExprs, MaxArgs),
        rest \in {<<>>, <<ReturnStatement(NoExpr)>>}}

\* dereferences of a pointer, of a value that is no pointer and of an
\* undeclared name, each followed by a statement
DerefOperands == {VarExpression("x"), VarExpression("y"), One}

DerefPrograms ==
    {<<Main0,
       ProcDecl("f", <<Param("x", t)>>, None,
                BlockStatement(<<ExprStatement(DereferenceExpression(e)),
                                 PrintStatement(One)>>))>> :
        t \in {INT, POINTER_INT, POINTER_BOOL},
        e \in DerefOperands}

\* declarations that refer to each other, in every order, with duplicates
CallF(e) == ExprStatement(CallExpression("f", <<e>>))

Decls ==
    {ProcDecl("main", <<>>, None, BlockStatement(<<CallF(One)>>)),
     ProcDecl("main", <<>>, None,
              BlockStatement(<<ReturnStatement(NoExpr), CallF(One)>>)),
     ProcDecl("f", <<Param("x", INT)>>, None,
              BlockStatement(<<ExprStatement(CallExpression("main", <<>>)),
                               PrintStatement(VarExpression("y"))>>)),
     ProcDecl("f", <<>>, INT, BlockStatement(<<ReturnStatement(One)>>)),
     ProcDecl("g", <<>>, None,
              BlockStatement(<<WhileStatement(True, CallF(VarExpression("y")))>>)),
     GlobVarDecl("y", One, INT),
     GlobVarDecl("y", True, BOOL)}

DeclPrograms == SeqsUpTo(Decls, MaxDecls) \ {<<>>}

IsProgram(p) ==
    \/ p \in ReturnPrograms
    \/ p \in ScopePrograms
    \/ p \in CallPrograms
    \/ p \in DerefPrograms
    \/ p \in DeclPrograms

----------------------------------------------------------------------------
(* check(prgm, reporter) on each of these programs.                        *)

NoFirst == [outcome |-> "none", prgm |-> <<>>]

Init ==
    /\ IsProgram(prgm)
    /\ Fresh
    /\ run = 1
    /\ first = NoFirst

Spec == Init /\ [][Next]_vars

----------------------------------------------------------------------------
(* check on a program, then on the same declarations in another order.     *)

Reorderings(n) ==
    {f \in [1..n -> 1..n] : \A i, j \in 1..n : i # j => f[i] # f[j]}

Ended == pc \in {"done", "raised"}

\* how check ended: what it returned, or that it raised
Outcome == IF pc = "raised" THEN "raised" ELSE result

Recheck ==
    /\ Ended
    /\ run = 1
    /\ \E f \in Reorderings(Len(prgm)) :
          prgm' = [k \in 1..Len(prgm) |-> prgm[f[k]]]
    /\ first' = [outcome |-> Outcome, prgm |-> prgm]
    /\ run' = 2
    /\ pc' = "pretype"
    /\ idx' = 1
    /\ scope' = ScopeNew
    /\ procs' = NoProcs
    /\ loops' = 0
    /\ proc' = 0
    /\ stack' = <<>>
    /\ raised' = FALSE
    /\ diags' = <<>>
    /\ typed' = {}
    /\ result' = "none"
    /\ last' = NoEvent

InitOrder ==
    /\ prgm \in DeclPrograms
    /\ Fresh
    /\ run = 1
    /\ first = NoFirst

NextOrder == Next \/ Recheck

SpecOrder == InitOrder /\ [][NextOrder]_vars

----------------------------------------------------------------------------
(* What the claims speak of.                                               *)

RECURSIVE StmtPaths(_, _)
StmtPaths(stmt, path) ==
    {path} \cup UNION {StmtPaths(stmt.body[k], path \o <<k>>) : k \in 1..Len(stmt.body)}

\* the statements of the program, by position
AllStmtPaths ==
    UNION {StmtPaths(prgm[i].body[1], <<i>>) :
              i \in {j \in 1..Len(prgm) : prgm[j].kind = "proc"}}

\* the expression at pos as the checker left it: annotated when for_expression
\* was called on it, as the parser built it (every slot None) otherwise
SlotOf(pos, source) ==
    IF \E t \in typed : t.pos = pos
    THEN (CHOOSE t \in typed : t.pos = pos).expr
    ELSE source

Visited(pos) == \E t \in typed : t.pos = pos

RECURSIVE AllTyped(_)
AllTyped(e) ==
    /\ e.type_ # None
    /\ \A k \in 1..Len(e.arguments) : AllTyped(e.arguments[k])

\* the diagnostics the last handler reported
NewDiags == SubSeq(diags, Len(last.pre.diags) + 1, Len(diags))

DiagsAt(msg, pos) == {k \in 1..Len(diags) : diags[k].msg = msg /\ diags[k].pos = pos}

\* the number of while statements the statement at path is nested in
WhileDepth(path) ==
    Cardinality({k \in 1..(Len(path) - 1) : StmtAt(SubSeq(path, 1, k)).kind = "while"})

----------------------------------------------------------------------------
(* C1: in a program on which check returns true, every expression node,    *)
(* the value of every return statement and every argument included, has    *)
(* its type slot set after the check.                                      *)
C1_TypeSlotsSet ==
    (pc = "done" /\ result = "true") =>
        /\ \A p \in AllStmtPaths :
              StmtAt(p).expr # NoExpr => AllTyped(SlotOf(p \o <<0>>, StmtAt(p).expr))
        /\ \A i \in 1..Len(prgm) :
              prgm[i].kind = "globvar" => AllTyped(SlotOf(<<i, 0>>, prgm[i].init))

\* the type for_expression infers for a returned value
ValueType(e) == for_expression(e, None, <<>>, scope, procs).expr.type_

\* the return statements whose value is not of the declared return type
IllTypedReturns ==
    {p \in AllStmtPaths :
        /\ StmtAt(p).kind = "return"
        /\ StmtAt(p).expr # NoExpr
        /\ prgm[p[1]].type_ # None
        /\ ValueType(StmtAt(p).expr) \notin {None, prgm[p[1]].type_}}

(* C2: a return statement whose value is not of the declared return type   *)
(* of its procedure gets a diagnostic, and check returns false.            *)
C2_ReturnTypeChecked ==
    (pc = "done" /\ IllTypedReturns # {}) =>
        /\ result = "false"
        /\ \A p \in IllTypedReturns :
              \E k \in 1..Len(diags) : diags[k].pos \in {p, p \o <<0>>}

(* C3: a return statement with no value records no diagnostic in a         *)
(* procedure with no declared return type and one diagnostic in a          *)
(* procedure with one, and in both cases checking goes on with the         *)
(* statements that follow.                                                 *)
C3_ValuelessReturn ==
    (last.ev = "return" /\ StmtAt(last.path).expr = NoExpr) =>
        /\ ~raised
        /\ stack = Tail(last.pre.stack)
        /\ IF prgm[last.path[1]].type_ = None
           THEN NewDiags = <<>>
           ELSE NewDiags = <<Report("value-less return statement in a function",
                                    last.path, "")>>
(* C4: the scope frames, the loop counter and the active procedure are     *)
(* those of the entry when the checking of a block, a while statement or a *)
(* procedure is left, by a return or by an exception; once for_topdecl is  *)
(* over the scope holds the global frame only, loops is 0 and proc None.   *)
C4_StackDiscipline ==
    /\ last.ev \in {"exit_block", "exit_loop", "exit_proc"} =>
          /\ Len(scope) = Len(last.entry.scope)
          /\ loops = last.entry.loops
          /\ proc = last.entry.proc
    /\ (stack = <<>> /\ pc # "pretype") =>
          /\ Len(scope) = 1
          /\ loops = 0
          /\ proc = 0

\* a loop nested in a loop is left by an exception, diagnostics recorded
C4_Witness ==
    /\ last.ev = "exit_loop"
    /\ raised
    /\ last.entry.loops = 1
    /\ loops = 1
    /\ diags # <<>>

(* C5: a local declaration is reported as a duplicate, and the binding     *)
(* kept, exactly when its name is bound in the innermost frame; otherwise  *)
(* it is bound there, whatever the enclosing frames bind, and is what the  *)
(* name resolves to until the block is closed, which restores the scope.   *)
C5_LocalDeclaration ==
    /\ last.ev = "vardecl" =>
          LET s   == StmtAt(last.path)
              old == last.pre.scope
              top == Len(last.pre.scope)
              dup == Report("duplicated variable declaration", <<>>, s.name)
          IN  /\ Len(scope) = top
              /\ \A k \in 1..(top - 1) : scope[k] = old[k]
              /\ \A n \in Names \ {s.name} : scope[top][n] = old[top][n]
              /\ IF old[top][s.name] # None
                 THEN /\ NewDiags # <<>>
                      /\ NewDiags[1] = dup
                      /\ scope[top][s.name] = old[top][s.name]
                 ELSE /\ \A k \in 1..Len(NewDiags) : NewDiags[k] # dup
                      /\ scope[top][s.name] = s.type_
                      /\ ScopeLookup(scope, s.name) = s.type_
    /\ last.ev = "exit_block" => scope = last.entry.scope

\* a local of an inner block shadows the local of the enclosing block, of
\* another type, itself shadowing the global
C5_Witness ==
    /\ last.ev = "vardecl"
    /\ Len(last.pre.scope) = 4
    /\ last.pre.scope[4][StmtAt(last.path).name] = None
    /\ last.pre.scope[3][StmtAt(last.path).name] \notin {None, StmtAt(last.path).type_}
    /\ last.pre.scope[1][StmtAt(last.path).name] # None
    /\ ScopeLookup(scope, StmtAt(last.path).name) = StmtAt(last.path).type_
    /\ NewDiags = <<>>

(* C6: a break or continue statement is reported exactly when no while     *)
(* statement encloses it, and the statements that follow are checked       *)
(* either way.                                                             *)
C6_BreakContinue ==
    last.ev \in {"break", "continue"} =>
        /\ NewDiags = IF WhileDepth(last.path) = 0
                      THEN <<Report("break/continue statement outside of a loop",
                                    last.path, "")>>
                      ELSE <<>>
        /\ ~raised
        /\ stack = Tail(last.pre.stack)

\* a break after a while statement that was checked, reported
C6_Witness ==
    /\ last.ev = "break"
    /\ Len(last.path) = 2
    /\ last.path[2] = 2
    /\ StmtAt(<<last.path[1], 1>>).kind = "while"
    /\ NewDiags # <<>>
    /\ loops = 0

ProcDeclsNamed(n) ==
    {i \in 1..Len(prgm) : prgm[i].kind = "proc" /\ prgm[i].name = n}

GlobDeclsNamed(n) ==
    {i \in 1..Len(prgm) : prgm[i].kind = "globvar" /\ prgm[i].name = n}

Least(S) == CHOOSE i \in S : \A j \in S : i <= j

DeclaredSig(d) ==
    Sig([k \in 1..Len(d.arguments) |-> d.arguments[k].type],
        IF d.type_ = None THEN VOID ELSE d.type_)

DuplicateDiags(n) ==
    {k \in 1..Len(diags) :
        diags[k].msg = "duplicated procedure name" /\ diags[k].name = n}

(* C7: of two procedures with one name pretype reports the second, once,   *)
(* keeps the signature of the first, and goes on to register the           *)
(* declarations that follow and to return the tables.                      *)
C7_DuplicateProcedure ==
    pc # "pretype" =>
        \A n \in ProcNames :
            /\ Cardinality(ProcDeclsNamed(n)) = 2 => Cardinality(DuplicateDiags(n)) = 1
            /\ ProcDeclsNamed(n) # {} =>
                  /\ Cardinality(DuplicateDiags(n)) = Cardinality(ProcDeclsNamed(n)) - 1
                  /\ procs[n] = DeclaredSig(prgm[Least(ProcDeclsNamed(n))])
            /\ ProcDeclsNamed(n) = {} => ~procs[n].defined

\* two declarations of f with different signatures, then g, registered
C7_Witness ==
    /\ pc = "check"
    /\ Len(prgm) = 3
    /\ ProcDeclsNamed("f") = {1, 2}
    /\ DeclaredSig(prgm[1]) # DeclaredSig(prgm[2])
    /\ ProcDeclsNamed("g") = {3}
    /\ procs["g"].defined
    /\ Cardinality(DuplicateDiags("f")) = 1

\* the calls, as expression statements, of a declared procedure with a
\* number of arguments other than its number of parameters
ArityCalls ==
    {p \in AllStmtPaths :
        /\ StmtAt(p).kind = "expr"
        /\ StmtAt(p).expr.kind = "call"
        /\ procs[StmtAt(p).expr.name].defined
        /\ Len(procs[StmtAt(p).expr.name].atypes) # Len(StmtAt(p).expr.arguments)}

\* for_expression was called on the argument a at pos with etype: its type
\* is known or it was reported, and it is reported as of the wrong type
\* exactly when its type is known and is not etype
ArgumentChecked(a, pos, etype) ==
    /\ a.type_ # None \/ DiagsAt("missing variable declaration", pos) # {}
    /\ DiagsAt("invalid type", pos) # {} <=>
          (a.type_ # None /\ etype # None /\ a.type_ # etype)

(* C8: a call of a declared procedure with the wrong number of arguments   *)
(* gets exactly one diagnostic, with the two counts; every argument is     *)
(* checked, against the parameter type at its position if there is one;    *)
(* the call has the declared return type; check returns false.             *)
C8_ArityMismatch ==
    \A p \in AllStmtPaths :
        (pc # "pretype" /\ p \in ArityCalls /\ Visited(p \o <<0>>)) =>
            LET e   == StmtAt(p).expr
                sig == procs[StmtAt(p).expr.name]
                c   == SlotOf(p \o <<0>>, StmtAt(p).expr)
            IN  /\ Cardinality(DiagsAt("invalid number of arguments", p \o <<0>>)) = 1
                /\ \A k \in DiagsAt("invalid number of arguments", p \o <<0>>) :
                      /\ diags[k].expected = Len(sig.atypes)
                      /\ diags[k].got = Len(e.arguments)
                /\ c.type_ = sig.retty
                /\ \A j \in 1..Len(e.arguments) :
                      ArgumentChecked(c.arguments[j], p \o <<0, j>>,
                                      IF j <= Len(sig.atypes) THEN sig.atypes[j] ELSE None)
                /\ Ended => (pc = "done" /\ result = "false")

(* C9: procedures and globals resolve whatever the order of the            *)
(* declarations: no call of a procedure and no read of a global that the   *)
(* program declares, before or after, is reported as unknown; and check    *)
(* ends the same way on every order of the same declarations.              *)
C9_OrderIndependent ==
    /\ (run = 2 /\ Ended) => Outcome = first.outcome
    /\ \A k \in 1..Len(diags) :
          /\ diags[k].msg = "unknown procedure" => ProcDeclsNamed(diags[k].name) = {}
          /\ diags[k].msg = "missing variable declaration" =>
                GlobDeclsNamed(diags[k].name) = {}

\* main calls f, f calls main and reads y, y is declared last; accepted, as
\* it was in the other order
C9_Witness ==
    /\ run = 2
    /\ pc = "done"
    /\ result = "true"
    /\ first.outcome = "true"
    /\ first.prgm # prgm
    /\ Len(prgm) = 3
    /\ ProcDeclsNamed("main") = {1}
    /\ ProcDeclsNamed("f") = {2}
    /\ GlobDeclsNamed("y") = {3}

\* the predicate of the claim: a return; an if with both branches, both
\* true; a block with a true statement
RECURSIVE GuaranteedReturn(_)
GuaranteedReturn(stmt) ==
    CASE stmt.kind = "return" -> TRUE
      [] stmt.kind = "if" ->
            /\ Len(stmt.body) = 2
            /\ GuaranteedReturn(stmt.body[1])
            /\ GuaranteedReturn(stmt.body[2])
      [] stmt.kind = "block" ->
            \E k \in 1..Len(stmt.body) : GuaranteedReturn(stmt.body[k])
      [] OTHER -> FALSE

(* C10: when a procedure has been checked, the missing return diagnostic   *)
(* was recorded for it exactly if it declares a return type and the        *)
(* predicate is false on its body.                                         *)
C10_MissingReturn ==
    last.ev = "exit_proc" =>
        NewDiags = IF /\ prgm[last.path[1]].type_ # None
                      /\ ~GuaranteedReturn(prgm[last.path[1]].body[1])
                   THEN <<Report("this function is missing a return statement",
                                 last.path, "")>>
                   ELSE <<>>

\* the dereference checked last, as the checker left it
LastDeref == SlotOf(last.path \o <<0>>, StmtAt(last.path).expr)

NonPointerDiag ==
    Report("Dereference of non-pointer type", last.path \o <<0, 1>>, "")

(* C11: the checking of a dereference completes and the statements that    *)
(* follow are checked: of a pointer to int or to bool it is typed int or   *)
(* bool and nothing is reported; of any other operand, typed or not, the   *)
(* non-pointer diagnostic is recorded and its type slot is left unset.     *)
C11_Dereference ==
    (last.ev = "expr" /\ StmtAt(last.path).expr.kind = "deref") =>
        /\ ~raised
        /\ stack = Tail(last.pre.stack)
        /\ CASE LastDeref.arguments[1].type_ = POINTER_INT ->
                    /\ LastDeref.type_ = INT
                    /\ \A k \in 1..Len(NewDiags) : NewDiags[k] # NonPointerDiag
             [] LastDeref.arguments[1].type_ = POINTER_BOOL ->
                    /\ LastDeref.type_ = BOOL
                    /\ \A k \in 1..Len(NewDiags) : NewDiags[k] # NonPointerDiag
             [] OTHER ->
                    /\ LastDeref.type_ = None
                    /\ \E k \in 1..Len(NewDiags) : NewDiags[k] = NonPointerDiag

====
